---- MODULE Spec2Model ----
(***************************************************************************)
(* The notification scheduler of src/index.js: the AnimationQueue, the     *)
(* window pool, the overflow queue and the cascade, together with the part *)
(* of src/preload.js that sends the close and click signals back.          *)
(*                                                                         *)
(* JavaScript runs one callback to completion.  A step of the model is     *)
(* either an API call (notify, closeAll, a closeNotification callback),    *)
(* an event of the event loop (a timeout, an interval tick, an ipc         *)
(* message, did-finish-load) or a promise continuation (a microtask).      *)
(* Events are taken only when no continuation is pending.                  *)
(***************************************************************************)
EXTENDS Integers, Sequences, FiniteSets, TLC

\* ---------------------------------------------------------------- bounds
MaxNotifications == 3
MaxSubmitted == 5
MaxCloseRequests == 2
MaxCloseAll == 1
MaxVisibleNotifications == 2
MaxSetConfig == 1
MaxTicks == 6

\* ------------------------------------------------------- config defaults
Width == 300
Height == 65
Padding == 10
AnimationSteps == 5
AnimateInParallel == TRUE
TotalHeight == Height + Padding

\* The primary display: display.bounds + display.workArea, and the width of
\* the work area.  Its height is the variable workAreaHeight.
WorkAreaX == 0
WorkAreaY == 25
WorkAreaWidth == 1000

VARIABLES
  latestID,             \* next id handed out by notify
  closed,               \* ids of the notification objects whose .closed is true
  activeNotifications,  \* sequence of window ids
  inactiveWindows,      \* sequence of window ids (the pool)
  notificationQueue,    \* sequence of notification ids
  queue,                \* animationQueue.queue
  running,              \* animationQueue.running
  flight,               \* tasks whose promise is pending
  nextInsertPos,
  timers,               \* armed timeouts
  windows,              \* the BrowserWindows ever created, by id
  onCloseCalls,         \* per id, the events onCloseFunc was called with
  shown,                \* the notifications bound to a window, in order
  pushCount,            \* number of AnimationQueue.push calls so far
  lastStarted,          \* push number of the task animate() started last
  closeRuns,            \* per id, how often the body of a close function ran
  manual,               \* ids with a close requested by the surface or the API
  closeRequests,
  closeAllCalls,
  notifyAfterClose,     \* a notify call came after some close was requested
  inUserCode,           \* the running callback is the caller's own code
  strictArgs,           \* setPosition raises on an argument that is no integer
  config,               \* the config object
  workAreaHeight,       \* display.workAreaSize.height
  setConfigCalls,
  returned,             \* the ids notify has returned, in call order
  result,               \* the arguments of the last notify call, how it ended
  failure,              \* how the last failure of a task surfaced
  closeAllAt            \* latestID at the last closeAll call, -1 before it

vars == << latestID, closed, activeNotifications, inactiveWindows,
           notificationQueue, queue, running, flight, nextInsertPos, timers,
           windows, onCloseCalls, shown, pushCount, lastStarted, closeRuns,
           manual, closeRequests, closeAllCalls, notifyAfterClose, inUserCode,
           strictArgs, config, workAreaHeight, setConfigCalls, returned,
           result, failure, closeAllAt >>

\* The scheduler state as one value, so that a handler and the calls it
\* makes compose as functions.
State ==
  [ latestID |-> latestID, closed |-> closed,
    activeNotifications |-> activeNotifications,
    inactiveWindows |-> inactiveWindows,
    notificationQueue |-> notificationQueue,
    queue |-> queue, running |-> running, flight |-> flight,
    nextInsertPos |-> nextInsertPos, timers |-> timers, windows |-> windows,
    onCloseCalls |-> onCloseCalls, shown |-> shown, pushCount |-> pushCount,
    lastStarted |-> lastStarted, closeRuns |-> closeRuns,
    returned |-> returned, result |-> result, failure |-> failure ]

Ids == 0 .. (MaxSubmitted - 1)

\* ------------------------------------------------------------- helpers
RemoveAt(seq, k) == SubSeq(seq, 1, k - 1) \o SubSeq(seq, k + 1, Len(seq))

\* Array.prototype.indexOf: the first position (from 0), -1 when absent.
IndexOf(seq, w) ==
  IF \E k \in 1 .. Len(seq) : seq[k] = w
  THEN (CHOOSE k \in 1 .. Len(seq) :
          seq[k] = w /\ \A j \in 1 .. (k - 1) : seq[j] # w) - 1
  ELSE -1

\* Array.prototype.splice(pos, 1): a negative pos counts from the end.
Splice1(seq, pos) ==
  LET start == IF pos < 0
               THEN (IF Len(seq) + pos < 0 THEN 0 ELSE Len(seq) + pos)
               ELSE pos
  IN IF start >= Len(seq) THEN seq ELSE RemoveAt(seq, start + 1)

\* _.defaults(customConfig, config): the properties customConfig does not
\* have are taken from config.
Defaults(customConfig, cfg) ==
  [ f \in DOMAIN cfg |->
      IF f \in DOMAIN customConfig THEN customConfig[f] ELSE cfg[f] ]

\* calcDimensions, the part that writes config
calcDimensions(cfg) ==
  LET totalHeight == cfg.height + cfg.padding
      totalWidth == cfg.width + cfg.padding
  IN [cfg EXCEPT
        !.totalHeight = totalHeight,
        !.totalWidth = totalWidth,
        !.firstPos = [ x |-> cfg.lowerRightCorner.x - totalWidth,
                       y |-> cfg.lowerRightCorner.y - totalHeight ]]

\* calcDimensions, the part that writes nextInsertPos
calcNextInsertPos(cfg) ==
  [ xdef |-> TRUE, ydef |-> TRUE, x |-> cfg.firstPos.x, y |-> cfg.firstPos.y ]

\* config.maxVisibleNotifications as the module computes it when loaded
maxVisibleNotifications(h, totalHeight) ==
  LET n == h \div totalHeight IN IF n > 7 THEN 7 ELSE n

\* The config object once the module is loaded on a display whose work area
\* is h high.
InitialConfig(h) ==
  LET c == calcDimensions(
             [ width |-> Width, height |-> Height, padding |-> Padding,
               animationSteps |-> AnimationSteps,
               animateInParallel |-> AnimateInParallel,
               lowerRightCorner |-> [ x |-> WorkAreaX + WorkAreaWidth,
                                      y |-> WorkAreaY + h ],
               totalHeight |-> 0, totalWidth |-> 0,
               firstPos |-> [ x |-> 0, y |-> 0 ],
               maxVisibleNotifications |-> 0 ])
  IN [c EXCEPT !.maxVisibleNotifications =
                  maxVisibleNotifications(h, c.totalHeight)]

SlotY(i) == config.lowerRightCorner.y - config.totalHeight * (i + 1)

NewWindow ==
  [ x |-> 0, y |-> 0, visible |-> FALSE, destroyed |-> FALSE,
    content |-> -1 ]

\* A show task; queued: it was made by checkForQueuedNotifications.
ShowTask(id, queued) ==
  [ func |-> "show", serial |-> 0, id |-> id, main |-> TRUE, win |-> 0,
    timed |-> FALSE, reason |-> "", queued |-> queued ]

\* A close function built by buildCloseNotification, wrapped by
\* buildCloseNotificationSafely: main says whether notificationObj is the
\* object notify() was given (or a copy that came back over ipc), timed
\* whether getTimeoutId was passed.
CloseTask(id, win, main, timed, reason) ==
  [ func |-> "close", serial |-> 0, id |-> id, main |-> main, win |-> win,
    timed |-> timed, reason |-> reason, queued |-> FALSE ]

\* A started task whose promise is pending: where it waits, the window it
\* got, the running moveNotificationAnimation intervals and, with
\* async.mapSeries, the indices still to be moved; of a cascade also the
\* startPos of moveOneDown and the config.totalHeight it started with.
InFlight(task, phase, win, moves) ==
  [ task |-> task, phase |-> phase, win |-> win, moves |-> moves,
    pend |-> << >>, startPos |-> -1, totalHeight |-> config.totalHeight ]

\* ------------------------------------------------------- AnimationQueue
RECURSIVE push(_, _), animate(_, _)

\* checkForQueuedNotifications that takes the notification queued last
checkForQueuedNotificationsLast(s) ==
  IF Len(s.notificationQueue) > 0
     /\ Len(s.activeNotifications) < config.maxVisibleNotifications
  THEN push([s EXCEPT !.notificationQueue = SubSeq(@, 1, Len(@) - 1)],
            ShowTask(s.notificationQueue[Len(s.notificationQueue)], TRUE))
  ELSE s

\* checkForQueuedNotifications that admits nothing
checkForQueuedNotificationsNever(s) == s

\* checkForQueuedNotifications
checkForQueuedNotifications(s) ==
  IF Len(s.notificationQueue) > 0
     /\ Len(s.activeNotifications) < config.maxVisibleNotifications
  THEN push([s EXCEPT !.notificationQueue = Tail(@)],
            ShowTask(Head(s.notificationQueue), TRUE))
  ELSE s

\* getWindow, up to the point where it returns or waits for did-finish-load
getWindow(s, t) ==
  IF Len(s.inactiveWindows) > 0
  THEN LET w == s.inactiveWindows[Len(s.inactiveWindows)]
       IN [s EXCEPT
             !.inactiveWindows = SubSeq(@, 1, Len(@) - 1),
             !.flight = Append(@, InFlight(t, "pooled", w, {}))]
  ELSE [s EXCEPT
          !.windows = Append(@, NewWindow),
          !.flight = Append(@, InFlight(t, "load", Len(s.windows) + 1, {}))]

CanShowOffByOne(s) ==
  Len(s.activeNotifications) <= config.maxVisibleNotifications

\* the test of showNotification that takes a limit of zero or less for
\* no limit
CanShowUnlimited(s) ==
  \/ Len(s.activeNotifications) < config.maxVisibleNotifications
  \/ config.maxVisibleNotifications <= 0

CanShow(s) == Len(s.activeNotifications) < config.maxVisibleNotifications

\* showNotification: the promise executor
showNotification(s, t) ==
  IF CanShow(s)
  THEN getWindow(s, t)
  ELSE [s EXCEPT
          !.notificationQueue = Append(@, t.id),
          !.flight = Append(@, InFlight(t, "then", 0, {}))]

\* calcInsertPos
calcInsertPos(s) ==
  IF Len(s.activeNotifications) < config.maxVisibleNotifications
  THEN [s EXCEPT !.nextInsertPos.ydef = TRUE,
                 !.nextInsertPos.y = SlotY(Len(s.activeNotifications))]
  ELSE s

\* showNotification: the continuation of getWindow() for the task at
\* position k of flight.  throws: what setPosition does with an undefined
\* coordinate (it raises, or it converts it as ToInt32 does, to 0; one of
\* the two for the whole run, strictArgs).  When it raises, the promise of
\* showNotification is never settled.
showWindow(s, k, throws) ==
  LET f == s.flight[k]
      w == f.win
      s1 == calcInsertPos(s)
      p == s1.nextInsertPos
      bad == s.windows[w].destroyed \/ (throws /\ ~(p.xdef /\ p.ydef))
  IN IF bad
     THEN [s1 EXCEPT !.flight = RemoveAt(@, k), !.failure = "unsettled"]
     ELSE [s1 EXCEPT
             !.windows[w].x = IF p.xdef THEN p.x ELSE 0,
             !.windows[w].y = IF p.ydef THEN p.y ELSE 0,
             !.windows[w].content = f.task.id,
             !.windows[w].visible = TRUE,
             !.activeNotifications = Append(@, w),
             !.timers = @ \cup {[id |-> f.task.id, win |-> w]},
             !.shown = Append(@, [id |-> f.task.id, win |-> w,
                                  index |-> Len(s.activeNotifications),
                                  x |-> IF p.xdef THEN p.x ELSE 0,
                                  y |-> IF p.ydef THEN p.y ELSE 0]),
             !.flight[k].phase = "then"]

\* moveNotificationAnimation(i, done) up to setInterval: den is
\* config.animationSteps when the step size is computed.
StartMove(s, i) ==
  [ win |-> s.activeNotifications[i + 1], newY |-> SlotY(i),
    startY |-> s.windows[s.activeNotifications[i + 1]].y,
    den |-> config.animationSteps, curStep |-> 1, i |-> i ]

\* moveOneDown: notificationPosArray.  startPos >= activeNotifications
\* compares a number with an array: true only for the empty array (which
\* converts to 0) and a startPos >= 0.
notificationPosArray(s, startPos) ==
  IF (Len(s.activeNotifications) = 0 /\ startPos >= 0) \/ startPos = -1
  THEN << >>
  ELSE [ j \in 1 .. (Len(s.activeNotifications) - startPos) |->
           startPos + j - 1 ]

\* moveOneDown: async.map starts a move for every index at once,
\* async.mapSeries the first one and the next when the one before is done.
moveOneDown(s, startPos) ==
  LET arr == notificationPosArray(s, startPos)
  IN IF arr = << >> THEN [ moves |-> {}, pend |-> << >> ]
     ELSE IF config.animateInParallel = FALSE
     THEN [ moves |-> { StartMove(s, arr[1]) }, pend |-> Tail(arr) ]
     ELSE [ moves |-> { StartMove(s, arr[j]) : j \in 1 .. Len(arr) },
            pend |-> << >> ]

\* The function returned by buildCloseNotification.  The closed flag and
\* onCloseFunc are those of notificationObj: of the caller's object for the
\* timeout and the onShowFunc callback, of a fresh copy without functions
\* for a close that came over ipc.
closeNotification(s, t) ==
  IF t.main /\ t.id \in s.closed
  THEN [s EXCEPT !.flight = Append(@, InFlight(t, "then", 0, {}))]
  ELSE
    LET s1 == [s EXCEPT
                 !.closed = IF t.main THEN @ \cup {t.id} ELSE @,
                 !.closeRuns[t.id] = @ + 1,
                 !.onCloseCalls[t.id] =
                    IF t.main THEN Append(@, t.reason) ELSE @]
    IN IF s.windows[t.win].destroyed
       THEN \* webContents of a destroyed window: the call raises
            [s1 EXCEPT !.failure = "thrown"]
       ELSE
         LET pos == IndexOf(s1.activeNotifications, t.win)
             s2 == [s1 EXCEPT
                      !.windows[t.win].content = -1,
                      !.windows[t.win].visible = FALSE,
                      !.timers = IF t.timed
                                 THEN @ \ {[id |-> t.id, win |-> t.win]}
                                 ELSE @,
                      !.activeNotifications = Splice1(@, pos),
                      !.inactiveWindows = Append(@, t.win)]
             s3 == checkForQueuedNotifications(s2)
             m == moveOneDown(s3, pos)
         IN [s3 EXCEPT
               !.flight = Append(@, [InFlight(t,
                             IF m.moves = {} THEN "then" ELSE "anim",
                             0, m.moves) EXCEPT !.pend = m.pend,
                                                !.startPos = pos])]

\* animate: object.func.apply(null, object.args); failure "thrown" says
\* that the call raised instead of returning a promise.
animate(s, t) ==
  LET s1 == [s EXCEPT !.lastStarted = t.serial]
  IN IF t.func = "show" THEN showNotification(s1, t)
                        ELSE closeNotification(s1, t)

\* What becomes of an exception of animate: the caller of push gets it
\* (how == "uncaught"), the .catch of animate logs it (how == "logged").
Raised(s, how) == [s EXCEPT !.failure = IF @ = "thrown" THEN how ELSE @]

\* push that starts the task at once although another one is running
pushInline(s, task) ==
  LET t == [task EXCEPT !.serial = s.pushCount]
  IN Raised(animate([s EXCEPT !.pushCount = @ + 1, !.running = TRUE], t),
            "uncaught")

\* push that starts the task when no task is in flight, running or not
pushRestarts(s, task) ==
  LET t == [task EXCEPT !.serial = s.pushCount]
      s1 == [s EXCEPT !.pushCount = @ + 1]
  IN IF s1.running /\ s1.flight # << >>
     THEN [s1 EXCEPT !.queue = Append(@, t)]
     ELSE Raised(animate([s1 EXCEPT !.running = TRUE], t), "uncaught")

push(s, task) ==
  LET t == [task EXCEPT !.serial = s.pushCount]
      s1 == [s EXCEPT !.pushCount = @ + 1]
  IN IF s1.running
     THEN [s1 EXCEPT !.queue = Append(@, t)]
     ELSE Raised(animate([s1 EXCEPT !.running = TRUE], t), "uncaught")

\* The .then handler of animate, for the task at position k of flight, and
\* its .catch
taskDone(s, k) ==
  LET s1 == [s EXCEPT !.flight = RemoveAt(@, k)]
  IN IF Len(s1.queue) > 0
     THEN Raised(animate([s1 EXCEPT !.queue = Tail(@)], Head(s1.queue)),
                 "logged")
     ELSE [s1 EXCEPT !.running = FALSE]

\* Number / Number converted as ToInt32 does: the quotient without its
\* fraction; a division by zero gives no finite number, which converts to 0.
Quot(a, b) ==
  IF b = 0 THEN 0
  ELSE IF (a >= 0) = (b > 0)
       THEN (IF a >= 0 THEN a ELSE -a) \div (IF b > 0 THEN b ELSE -b)
       ELSE -((IF a >= 0 THEN a ELSE -a) \div (IF b > 0 THEN b ELSE -b))

\* startY + curStep * step is an integer
IsInteger(m) ==
  /\ m.den # 0
  /\ (m.curStep * (m.newY - m.startY))
        % (IF m.den > 0 THEN m.den ELSE -m.den) = 0

\* A tick of move m can run to its end: the window is still there, and
\* setPosition gets integers or converts what it gets.
CanTick(s, m, throws) ==
  /\ ~s.windows[m.win].destroyed
  /\ m.curStep = config.animationSteps \/ ~throws \/ IsInteger(m)

\* done(null, 'done') of the move at index i of a cascade: async.map
\* resolves after the last one, async.mapSeries starts the next index.
moveDone(s, k, m) ==
  LET f == s.flight[k]
      left == f.moves \ {m}
  IN IF f.pend = << >>
     THEN [s EXCEPT !.flight[k].moves = left,
                    !.flight[k].phase = IF left = {} THEN "then" ELSE "anim"]
     ELSE LET i == Head(f.pend)
          IN IF i >= Len(s.activeNotifications)
                \/ s.windows[s.activeNotifications[i + 1]].destroyed
             THEN \* getPosition of undefined or of a destroyed window
                  [s EXCEPT !.flight[k].moves = left, !.failure = "uncaught"]
             ELSE [s EXCEPT !.flight[k].moves = left \cup {StartMove(s, i)},
                            !.flight[k].pend = Tail(@)]

\* One tick of the interval of moveNotificationAnimation
moveNotificationAnimation(s, k, m) ==
  IF m.curStep = config.animationSteps
  THEN moveDone([s EXCEPT !.windows[m.win].x = config.firstPos.x,
                          !.windows[m.win].y = m.newY], k, m)
  ELSE [s EXCEPT
          !.windows[m.win].x = config.firstPos.x,
          !.windows[m.win].y =
             IF m.den = 0 THEN 0
             ELSE m.startY + Quot(m.curStep * (m.newY - m.startY), m.den),
          !.flight[k].moves =
             (@ \ {m}) \cup {[m EXCEPT !.curStep = @ + 1]}]

\* closeAll that also starts the ids again at 0
closeAllResetsLatestID(s) ==
  LET gone == { s.activeNotifications[i] :
                  i \in 1 .. Len(s.activeNotifications) }
              \cup { s.inactiveWindows[i] : i \in 1 .. Len(s.inactiveWindows) }
  IN [s EXCEPT
        !.latestID = 0,
        !.queue = << >>,
        !.windows = [w \in DOMAIN @ |->
                       IF w \in gone
                       THEN [@[w] EXCEPT !.destroyed = TRUE, !.visible = FALSE,
                                         !.content = -1]
                       ELSE @[w]],
        !.nextInsertPos = [xdef |-> FALSE, ydef |-> FALSE, x |-> 0, y |-> 0],
        !.activeNotifications = << >>,
        !.inactiveWindows = << >>]

\* closeAll: window.close() on every active and pooled window (the window
\* is destroyed), the pending tasks dropped, nextInsertPos = {}.  The
\* notificationQueue, the armed timeouts, running and a task in flight are
\* left as they are.
closeAll(s) ==
  LET gone == { s.activeNotifications[i] :
                  i \in 1 .. Len(s.activeNotifications) }
              \cup { s.inactiveWindows[i] : i \in 1 .. Len(s.inactiveWindows) }
  IN [s EXCEPT
        !.queue = << >>,
        !.windows = [w \in DOMAIN @ |->
                       IF w \in gone
                       THEN [@[w] EXCEPT !.destroyed = TRUE, !.visible = FALSE,
                                         !.content = -1]
                       ELSE @[w]],
        !.nextInsertPos = [xdef |-> FALSE, ydef |-> FALSE, x |-> 0, y |-> 0],
        !.activeNotifications = << >>,
        !.inactiveWindows = << >>]

\* setConfig
setConfig(s, cfg, customConfig) ==
  LET c == calcDimensions(Defaults(customConfig, cfg))
  IN [ config |-> c,
       state |-> [s EXCEPT !.nextInsertPos =
                    [@ EXCEPT !.xdef = TRUE, !.ydef = TRUE,
                              !.x = c.firstPos.x, !.y = c.firstPos.y]] ]

\* ------------------------------------------------------------- the steps
MicroPending(fl) ==
  \E k \in 1 .. Len(fl) : fl[k].phase \in {"pooled", "then"}

\* The state s a handler leaves becomes the next state (s is computed once)
Commit(s, user) ==
  \E t \in {s} :
    /\ latestID' = t.latestID
    /\ closed' = t.closed
    /\ activeNotifications' = t.activeNotifications
    /\ inactiveWindows' = t.inactiveWindows
    /\ notificationQueue' = t.notificationQueue
    /\ queue' = t.queue
    /\ running' = t.running
    /\ flight' = t.flight
    /\ nextInsertPos' = t.nextInsertPos
    /\ timers' = t.timers
    /\ windows' = t.windows
    /\ onCloseCalls' = t.onCloseCalls
    /\ shown' = t.shown
    /\ pushCount' = t.pushCount
    /\ lastStarted' = t.lastStarted
    /\ closeRuns' = t.closeRuns
    /\ returned' = t.returned
    /\ result' = t.result
    /\ failure' = t.failure
    /\ inUserCode' = (user /\ MicroPending(t.flight))
    /\ UNCHANGED << strictArgs, workAreaHeight >>

UserCanCall == inUserCode \/ ~MicroPending(flight)
EventCanFire == ~MicroPending(flight)

\* Some close has been requested: a timeout fired, or a manual request.
CloseSeen ==
  \/ closeRequests > 0
  \/ closeAllCalls > 0
  \/ \E i \in 1 .. Len(shown) :
        [id |-> shown[i].id, win |-> shown[i].win] \notin timers

\* The values a caller may pass, by kind, and what typeof says of them
Values == {"object", "array", "null", "string", "number", "undefined"}

TypeOf(v) == IF v \in {"object", "array", "null"} THEN "object" ELSE v

\* notify: args is the list of the arguments of the call.  With null,
\* notification.id = latestID raises a TypeError before anything is changed.
notify(s, args) ==
  IF Len(args) = 1 /\ TypeOf(args[1]) = "object"
  THEN IF args[1] = "null"
       THEN [s EXCEPT !.result = [args |-> args, ret |-> "throws"]]
       ELSE push([s EXCEPT !.latestID = @ + 1,
                           !.returned = Append(@, s.latestID),
                           !.result = [args |-> args, ret |-> "id"]],
                 ShowTask(s.latestID, FALSE))
  ELSE [s EXCEPT !.result = [args |-> args, ret |-> "undefined"]]

\* notify(notification) with one object
NotifyUpTo(limit) ==
  /\ UserCanCall
  /\ latestID < limit
  /\ Commit(notify(State, << "object" >>), TRUE)
  /\ notifyAfterClose' = (notifyAfterClose \/ CloseSeen)
  /\ UNCHANGED << manual, closeRequests, closeAllCalls, config,
                  setConfigCalls, closeAllAt >>

Notify == NotifyUpTo(MaxNotifications)

\* did-finish-load of a new window, and the continuation of getWindow()
DidFinishLoad(k) ==
  /\ EventCanFire
  /\ flight[k].phase = "load"
  /\ Commit(showWindow(State, k, strictArgs), FALSE)
  /\ UNCHANGED << manual, closeRequests, closeAllCalls, notifyAfterClose,
                  config, setConfigCalls, closeAllAt >>

\* the continuation of getWindow() for a window taken from the pool
ShowPooled(k) ==
  /\ flight[k].phase = "pooled"
  /\ Commit(showWindow(State, k, strictArgs), FALSE)
  /\ UNCHANGED << manual, closeRequests, closeAllCalls, notifyAfterClose,
                  config, setConfigCalls, closeAllAt >>

\* the task's promise has resolved: the .then handler of animate
TaskDone(k) ==
  /\ flight[k].phase = "then"
  /\ Commit(taskDone(State, k), FALSE)
  /\ UNCHANGED << manual, closeRequests, closeAllCalls, notifyAfterClose,
                  config, setConfigCalls, closeAllAt >>

\* an interval tick of a moving window.  When setPosition raises (a
\* destroyed window, a coordinate that is no integer) the callback ends
\* before curStep++ and clearInterval: every later tick does the same.
MoveTick(k, m) ==
  /\ EventCanFire
  /\ flight[k].phase = "anim"
  /\ m \in flight[k].moves
  /\ CanTick(State, m, strictArgs)
  /\ m.curStep = config.animationSteps \/ m.curStep < MaxTicks
  /\ Commit(moveNotificationAnimation(State, k, m), FALSE)
  /\ UNCHANGED << manual, closeRequests, closeAllCalls, notifyAfterClose,
                  config, setConfigCalls, closeAllAt >>

\* the timeout set by showNotification fires
TimerFire(t) ==
  /\ EventCanFire
  /\ t \in timers
  /\ Commit(push([State EXCEPT !.timers = @ \ {t}],
                 CloseTask(t.id, t.win, TRUE, TRUE, "timeout")), FALSE)
  /\ UNCHANGED << manual, closeRequests, closeAllCalls, notifyAfterClose,
                  config, setConfigCalls, closeAllAt >>

\* the closeNotification callback handed to onShowFunc, called without reason
ApiClose(i) ==
  /\ UserCanCall
  /\ closeRequests < MaxCloseRequests
  /\ Commit(push(State, CloseTask(shown[i].id, shown[i].win, TRUE, TRUE,
                                  "closedByAPI")), TRUE)
  /\ manual' = manual \cup {shown[i].id}
  /\ closeRequests' = closeRequests + 1
  /\ UNCHANGED << closeAllCalls, notifyAfterClose, config, setConfigCalls, closeAllAt >>

\* ipc 'node-desktop-notification-close': the close button of window w was
\* clicked.  The notificationObj of the message is the copy the renderer
\* got with set-contents: its closed is not set and it has no functions.
IpcClose(w) ==
  /\ EventCanFire
  /\ closeRequests < MaxCloseRequests
  /\ windows[w].content # -1
  /\ ~windows[w].destroyed
  /\ Commit(push(State, CloseTask(windows[w].content, w, FALSE, FALSE,
                                  "close")), FALSE)
  /\ manual' = manual \cup {windows[w].content}
  /\ closeRequests' = closeRequests + 1
  /\ UNCHANGED << closeAllCalls, notifyAfterClose, config, setConfigCalls, closeAllAt >>

\* ipc 'node-desktop-notification-click': window w was clicked.  The
\* notificationObj of the message is the renderer's copy, which carries no
\* functions: onClickFunc is undefined on it and no closeNotification
\* callback is handed out; shell.openExternal is outside the scheduler.
IpcClick(w) ==
  /\ EventCanFire
  /\ windows[w].content # -1
  /\ ~windows[w].destroyed
  /\ UNCHANGED vars

\* closeAll()
CloseAll ==
  /\ UserCanCall
  /\ closeAllCalls < MaxCloseAll
  /\ Commit(closeAll(State), TRUE)
  /\ closeAllCalls' = closeAllCalls + 1
  /\ closeAllAt' = latestID
  /\ UNCHANGED << manual, closeRequests, notifyAfterClose, config,
                  setConfigCalls >>

\* The state once the module is loaded, on the display it finds
InitOn ==
  /\ config = InitialConfig(workAreaHeight)
  /\ latestID = 0
  /\ closed = {}
  /\ activeNotifications = << >>
  /\ inactiveWindows = << >>
  /\ notificationQueue = << >>
  /\ queue = << >>
  /\ running = FALSE
  /\ flight = << >>
  /\ nextInsertPos = calcNextInsertPos(config)
  /\ timers = {}
  /\ windows = << >>
  /\ onCloseCalls = [id \in Ids |-> << >>]
  /\ shown = << >>
  /\ pushCount = 0
  /\ lastStarted = -1
  /\ closeRuns = [id \in Ids |-> 0]
  /\ manual = {}
  /\ closeRequests = 0
  /\ closeAllCalls = 0
  /\ notifyAfterClose = FALSE
  /\ inUserCode = FALSE
  /\ strictArgs \in BOOLEAN
  /\ setConfigCalls = 0
  /\ returned = << >>
  /\ result = [args |-> << >>, ret |-> "none"]
  /\ failure = "none"
  /\ closeAllAt = -1

\* The module is loaded on a display with room for MaxVisibleNotifications
\* notifications of the default size.
Init ==
  /\ workAreaHeight = MaxVisibleNotifications * TotalHeight
  /\ InitOn

Next ==
  \/ Notify
  \/ \E k \in 1 .. Len(flight) : DidFinishLoad(k)
  \/ \E k \in 1 .. Len(flight) : ShowPooled(k)
  \/ \E k \in 1 .. Len(flight) : TaskDone(k)
  \/ \E k \in 1 .. Len(flight) : \E m \in flight[k].moves : MoveTick(k, m)
  \/ \E t \in timers : TimerFire(t)
  \/ \E i \in 1 .. Len(shown) : ApiClose(i)
  \/ \E w \in 1 .. Len(windows) : IpcClose(w)
  \/ \E w \in 1 .. Len(windows) : IpcClick(w)
  \/ CloseAll

Spec == Init /\ [][Next]_vars

\* Submissions and timeouts only: no manual close, no closeAll.
NotifyMore == NotifyUpTo(MaxSubmitted)

NextFifo ==
  \/ NotifyMore
  \/ \E k \in 1 .. Len(flight) : DidFinishLoad(k)
  \/ \E k \in 1 .. Len(flight) : ShowPooled(k)
  \/ \E k \in 1 .. Len(flight) : TaskDone(k)
  \/ \E k \in 1 .. Len(flight) : \E m \in flight[k].moves : MoveTick(k, m)
  \/ \E t \in timers : TimerFire(t)

SpecFifo == Init /\ [][NextFifo]_vars

\* notify called with any list of arguments; no manual close, no closeAll.
ArgLists ==
  { << >> } \cup { << v >> : v \in Values }
            \cup { << "object", v >> : v \in {"object", "undefined"} }

NotifyArgs(args) ==
  /\ UserCanCall
  /\ latestID < MaxNotifications
  /\ Commit(notify(State, args), TRUE)
  /\ notifyAfterClose' = (notifyAfterClose \/ CloseSeen)
  /\ UNCHANGED << manual, closeRequests, closeAllCalls, config,
                  setConfigCalls, closeAllAt >>

NextArgs ==
  \/ \E args \in ArgLists : NotifyArgs(args)
  \/ \E k \in 1 .. Len(flight) : DidFinishLoad(k)
  \/ \E k \in 1 .. Len(flight) : ShowPooled(k)
  \/ \E k \in 1 .. Len(flight) : TaskDone(k)
  \/ \E k \in 1 .. Len(flight) : \E m \in flight[k].moves : MoveTick(k, m)
  \/ \E t \in timers : TimerFire(t)

SpecArgs == Init /\ [][NextArgs]_vars

\* The displays the module may be loaded on, by the height of the work
\* area, and the objects setConfig may be called with.
WorkAreaHeights == {0, 74, 150, 600}

CustomConfigs ==
  { << >>, [height |-> 100], [padding |-> 0], [width |-> 200],
    [height |-> 30, padding |-> 5], [animationSteps |-> 1],
    [animationSteps |-> 2], [animationSteps |-> 0],
    [animateInParallel |-> FALSE],
    [animateInParallel |-> FALSE, animationSteps |-> 3],
    [maxVisibleNotifications |-> 1], [maxVisibleNotifications |-> -1] }

InitConfig ==
  /\ workAreaHeight \in WorkAreaHeights
  /\ InitOn

\* setConfig(customConfig)
SetConfig(customConfig) ==
  /\ UserCanCall
  /\ setConfigCalls < MaxSetConfig
  /\ config' = setConfig(State, config, customConfig).config
  /\ Commit(setConfig(State, config, customConfig).state, TRUE)
  /\ setConfigCalls' = setConfigCalls + 1
  /\ UNCHANGED << manual, closeRequests, closeAllCalls, notifyAfterClose,
                  closeAllAt >>

NextConfig ==
  \/ Notify
  \/ \E customConfig \in CustomConfigs : SetConfig(customConfig)
  \/ \E k \in 1 .. Len(flight) : DidFinishLoad(k)
  \/ \E k \in 1 .. Len(flight) : ShowPooled(k)
  \/ \E k \in 1 .. Len(flight) : TaskDone(k)
  \/ \E k \in 1 .. Len(flight) : \E m \in flight[k].moves : MoveTick(k, m)
  \/ \E t \in timers : TimerFire(t)

SpecConfig == InitConfig /\ [][NextConfig]_vars

\* Everything but closeAll and setConfig
NextClose ==
  \/ Notify
  \/ \E k \in 1 .. Len(flight) : DidFinishLoad(k)
  \/ \E k \in 1 .. Len(flight) : ShowPooled(k)
  \/ \E k \in 1 .. Len(flight) : TaskDone(k)
  \/ \E k \in 1 .. Len(flight) : \E m \in flight[k].moves : MoveTick(k, m)
  \/ \E t \in timers : TimerFire(t)
  \/ \E i \in 1 .. Len(shown) : ApiClose(i)
  \/ \E w \in 1 .. Len(windows) : IpcClose(w)

\* The event loop runs every pending continuation and delivers every event
\* that stays due: timeouts, interval ticks, did-finish-load.  Calls of the
\* API and clicks may or may not come.
Fairness ==
  /\ WF_vars(\E k \in 1 .. Len(flight) : DidFinishLoad(k))
  /\ WF_vars(\E k \in 1 .. Len(flight) : ShowPooled(k))
  /\ WF_vars(\E k \in 1 .. Len(flight) : TaskDone(k))
  /\ WF_vars(\E k \in 1 .. Len(flight) :
               \E m \in flight[k].moves : MoveTick(k, m))
  /\ WF_vars(\E t \in timers : TimerFire(t))

\* The runs in which setPosition raises on an undefined coordinate.
InitStrict == Init /\ strictArgs = TRUE

SpecStrict == InitStrict /\ [][Next]_vars

SpecLive == InitStrict /\ [][Next]_vars /\ Fairness

SpecFair == InitStrict /\ [][NextClose]_vars /\ Fairness

\* ------------------------------------------------------------- the claims
WindowsOf(seq) == { seq[i] : i \in 1 .. Len(seq) }

\* C1: however often and in whatever order a notification is asked to
\* close, the body of a close function runs for it at most once (every
\* later close is a no-op) and onCloseFunc is called at most once.
C1_IdempotentClose ==
  \A id \in Ids : closeRuns[id] <= 1 /\ Len(onCloseCalls[id]) <= 1

\* C2: activeNotifications never holds more than maxVisibleNotifications
\* windows.
C2_Capacity == Len(activeNotifications) <= config.maxVisibleNotifications

C2_Witness ==
  /\ Len(activeNotifications) = config.maxVisibleNotifications
  /\ Len(notificationQueue) > 0
  /\ \E k \in 1 .. Len(flight) :
       flight[k].task.func = "show" /\ flight[k].win = 0

\* C3: when no task is in flight, the window at index i is at the y of slot
\* i, every visible window is active, and no two visible windows share a
\* position.
C3_Contiguous ==
  flight = << >> =>
    /\ \A i \in 1 .. Len(activeNotifications) :
         windows[activeNotifications[i]].y = SlotY(i - 1)
    /\ \A w \in 1 .. Len(windows) :
         windows[w].visible => w \in WindowsOf(activeNotifications)
    /\ \A v, w \in 1 .. Len(windows) :
         (v # w /\ windows[v].visible /\ windows[w].visible)
            => windows[v].y # windows[w].y

\* C8: closeAll leaves activeNotifications, inactiveWindows,
\* notificationQueue and the pending list of the AnimationQueue empty and
\* has destroyed every window that was active or pooled.
C8_CloseAllResets ==
  [][ closeAllCalls' # closeAllCalls =>
        /\ activeNotifications' = << >>
        /\ inactiveWindows' = << >>
        /\ notificationQueue' = << >>
        /\ queue' = << >>
        /\ \A w \in WindowsOf(activeNotifications)
                      \cup WindowsOf(inactiveWindows) :
             windows'[w].destroyed ]_vars

\* C9: the timeout of a notification that has been closed is not armed any
\* more, so it cannot fire.
C9_TimerCancelled == \A t \in timers : closeRuns[t.id] = 0

\* C10: a window is in at most one of activeNotifications and
\* inactiveWindows, and at most once.
C10_ExclusiveOwner ==
  LET all == activeNotifications \o inactiveWindows
  IN \A i, j \in 1 .. Len(all) : i # j => all[i] # all[j]

\* C4: when every notify call comes before the first close, the
\* notifications are shown in submission order, and the first
\* maxVisibleNotifications of them at the indices 0, 1, 2, ...
C4_FifoAdmission ==
  (~notifyAfterClose /\ closeAllCalls = 0) =>
    \A i \in 1 .. Len(shown) :
      /\ shown[i].id = i - 1
      /\ i <= config.maxVisibleNotifications => shown[i].index = i - 1

C4_Witness ==
  /\ ~notifyAfterClose
  /\ closeAllCalls = 0
  /\ Len(shown) > config.maxVisibleNotifications + 1
  /\ latestID = Len(shown)

\* C5: at most one task is in flight, it is the task started last, the
\* pending tasks are in push order and all pushed after it, and tasks are
\* pending only while the queue is running.
C5_Serialized ==
  /\ Len(flight) <= 1
  /\ \A k \in 1 .. Len(flight) : flight[k].task.serial = lastStarted
  /\ \A i \in 1 .. Len(queue) :
       /\ queue[i].serial > lastStarted
       /\ i > 1 => queue[i - 1].serial < queue[i].serial
  /\ (flight # << >> \/ queue # << >>) => running

C5_Witness ==
  /\ Len(flight) = 1
  /\ flight[1].phase = "anim"
  /\ \E i, j \in 1 .. Len(queue) :
       queue[i].func = "close" /\ queue[j].func = "show"

\* The indices of activeNotifications whose window shows notification id
SlotsOf(id) ==
  { p \in 1 .. Len(activeNotifications) :
      windows[activeNotifications[p]].content = id }

\* C6: a close of the notification shown at index p removes exactly that
\* entry (the entries below keep their index, those above move down by
\* one), takes the head of notificationQueue and leaves its show task
\* pending until the close task is done; and that show task, once started,
\* admits the notification.
C6_CloseShiftsAndAdmits ==
  /\ [][ \A id \in Ids :
           (closeRuns'[id] = closeRuns[id] + 1 /\ SlotsOf(id) # {}) =>
             LET p == CHOOSE q \in SlotsOf(id) : \A r \in SlotsOf(id) : q <= r
             IN /\ activeNotifications' = RemoveAt(activeNotifications, p)
                /\ notificationQueue # << >> =>
                     /\ notificationQueue' = Tail(notificationQueue)
                     /\ \E i \in 1 .. Len(queue') :
                          /\ queue'[i].func = "show"
                          /\ queue'[i].id = Head(notificationQueue) ]_vars
  /\ [](\A k \in 1 .. Len(flight) :
          (flight[k].task.func = "show" /\ flight[k].task.queued)
             => flight[k].win # 0)

IsShown(id) == \E i \in 1 .. Len(shown) : shown[i].id = id

WindowGone(id) ==
  \E i \in 1 .. Len(shown) :
    shown[i].id = id /\ windows[shown[i].win].destroyed

\* C7: a shown notification with no manual close, whose window closeAll did
\* not destroy, is closed by its timeout: once no timeout is armed and no
\* task is in flight any more, its onCloseFunc has been called once, with
\* "timeout", and its window has gone through inactiveWindows.
C7_TimeoutCloses ==
  (timers = {} /\ flight = << >>) =>
    \A id \in Ids :
      (IsShown(id) /\ id \notin manual /\ ~WindowGone(id)) =>
        /\ onCloseCalls[id] = << "timeout" >>
        /\ closeRuns[id] = 1

\* C11: the ids notify returns are 0, 1, 2, ... in call order, also across
\* closeAll: latestID is the number of ids returned so far, and a
\* notification that is shown or whose show task is pending has had its id
\* returned.
C11_IdsInCallOrder ==
  /\ latestID = Len(returned)
  /\ \A i \in 1 .. Len(returned) : returned[i] = i - 1
  /\ \A i \in 1 .. Len(shown) : shown[i].id < Len(returned)
  /\ \A i \in 1 .. Len(queue) : queue[i].id < Len(returned)
  /\ \A k \in 1 .. Len(flight) : flight[k].task.id < Len(returned)

\* a notify call after closeAll: closeAll empties the pending list
C11_Witness ==
  /\ closeAllCalls > 0
  /\ \E i \in 1 .. Len(queue) :
       queue[i].func = "show" /\ ~queue[i].queued /\ queue[i].id >= 1
                              /\ returned[Len(returned)] = queue[i].id

\* The arguments are not exactly one notification object
Malformed(args) ==
  Len(args) # 1 \/ args[1] \in {"null", "string", "number", "undefined"}

\* C12: a notify call whose arguments are not exactly one notification
\* object returns no id, does not throw, and leaves latestID, the
\* AnimationQueue, activeNotifications, inactiveWindows and
\* notificationQueue as they were.
C12_MalformedRejected ==
  [][ (result' # result /\ Malformed(result'.args)) =>
        /\ result'.ret = "undefined"
        /\ UNCHANGED << latestID, queue, running, flight, activeNotifications,
                        inactiveWindows, notificationQueue >> ]_vars

\* The derived geometry of cfg agrees with its width, height and padding
Derived(cfg) ==
  /\ cfg.totalHeight = cfg.height + cfg.padding
  /\ cfg.totalWidth = cfg.width + cfg.padding
  /\ cfg.firstPos = [ x |-> cfg.lowerRightCorner.x - cfg.totalWidth,
                      y |-> cfg.lowerRightCorner.y - cfg.totalHeight ]

\* min(7, floor(workAreaHeight / (height + padding)))
MaxVisibleOf(cfg) ==
  LET n == workAreaHeight \div (cfg.height + cfg.padding)
  IN IF n > 7 THEN 7 ELSE n

\* C13: after a setConfig call totalHeight, totalWidth and firstPos agree
\* with the merged configuration, and so does maxVisibleNotifications
\* (unless the call itself gave another value for it).
C13_DerivedGeometry ==
  [][ setConfigCalls' # setConfigCalls =>
        /\ Derived(config')
        /\ config'.maxVisibleNotifications = config.maxVisibleNotifications
              => config'.maxVisibleNotifications = MaxVisibleOf(config') ]_vars

\* C14: once a task has failed and the .catch of animate has logged it,
\* running stays true with no task in flight, no task is started any more
\* (pending tasks stay pending or are dropped by closeAll, a pushed task is
\* appended), and no notification is shown or closed.
C14_FailureStalls ==
  /\ [](failure = "logged" => (running /\ flight = << >>))
  /\ [][ failure = "logged" =>
           /\ lastStarted' = lastStarted
           /\ shown' = shown
           /\ closeRuns' = closeRuns
           /\ \/ activeNotifications' = activeNotifications
              \/ closeAllCalls' # closeAllCalls
           /\ \/ queue' = queue
              \/ queue' = << >>
              \/ Len(queue') = Len(queue) + 1
                   /\ SubSeq(queue', 1, Len(queue)) = queue ]_vars

C14_Witness == failure = "logged" /\ Len(queue) >= 2

\* A show task has got or is waiting for a window
Acquiring(fl) == \E k \in 1 .. Len(fl) : fl[k].phase \in {"load", "pooled"}

\* The ids of a list of tasks
IdsOf(tasks) == [ i \in 1 .. Len(tasks) |-> tasks[i].id ]

\* C15: with maxVisibleNotifications zero or negative no slot is used.  On
\* a display too small for one notification no notify call fails, no
\* window is created, activeNotifications stays empty, and the submitted
\* notifications are, in submission order, in notificationQueue or in show
\* tasks still pending.  In general, when the limit is zero or negative and
\* no slot is in use, a step takes no window, creates none, and changes
\* notificationQueue only by appending the notification of the show task
\* it starts.
C15_NoSlotUsed ==
  /\ []((setConfigCalls = 0 /\ config.maxVisibleNotifications <= 0) =>
          /\ windows = << >>
          /\ activeNotifications = << >>
          /\ result.ret # "throws"
          /\ failure = "none"
          /\ notificationQueue \o IdsOf(queue)
               = [ i \in 1 .. latestID |-> i - 1 ])
  /\ [][ ( /\ config.maxVisibleNotifications <= 0
           /\ config'.maxVisibleNotifications <= 0
           /\ activeNotifications = << >>
           /\ ~Acquiring(flight) ) =>
           /\ activeNotifications' = << >>
           /\ ~Acquiring(flight')
           /\ windows' = windows
           /\ inactiveWindows' = inactiveWindows
           /\ failure' = failure
           /\ \/ notificationQueue' = notificationQueue
              \/ /\ lastStarted' # lastStarted
                 /\ \E k \in 1 .. Len(flight') :
                      /\ flight'[k].task.serial = lastStarted'
                      /\ notificationQueue'
                           = Append(notificationQueue, flight'[k].task.id)
         ]_vars

C15_Witness ==
  /\ config.maxVisibleNotifications <= 0
  /\ windows = << >>
  /\ Len(notificationQueue) = MaxNotifications

\* The notifications that wait to be shown: in notificationQueue, in a
\* pending show task, or in a started show task that has no window yet
WaitingIds ==
  { notificationQueue[i] : i \in 1 .. Len(notificationQueue) }
    \cup { queue[i].id : i \in { j \in 1 .. Len(queue) : queue[j].func = "show" } }
    \cup { flight[k].task.id :
             k \in { j \in 1 .. Len(flight) :
                       /\ flight[j].task.func = "show"
                       /\ flight[j].phase \in {"load", "pooled"} } }

\* C16: notifications become visible in submission order: no notification
\* has been shown while one with a smaller id still waits, and
\* notificationQueue holds the waiting notifications in submission order.
C16_SubmissionOrder ==
  /\ \A i \in 1 .. Len(shown) : \A w \in WaitingIds : shown[i].id < w
  /\ \A i, j \in 1 .. Len(notificationQueue) :
       i < j => notificationQueue[i] < notificationQueue[j]

\* C17: after closeAll a notification submitted before the call does not
\* change the scheduler any more: it is not shown (no window of it is added
\* to activeNotifications), its onCloseFunc is not invoked, and a close of
\* it leaves activeNotifications and inactiveWindows as they are.
C17_NothingAfterCloseAll ==
  [][ (closeAllCalls > 0 /\ closeAllCalls' = closeAllCalls) =>
        /\ Len(shown') > Len(shown) => shown'[Len(shown')].id >= closeAllAt
        /\ \A id \in Ids :
             id < closeAllAt =>
               /\ onCloseCalls'[id] = onCloseCalls[id]
               /\ closeRuns'[id] # closeRuns[id] =>
                    /\ activeNotifications' = activeNotifications
                    /\ inactiveWindows' = inactiveWindows ]_vars

\* C18: the continuation of a show task calls setPosition with
\* x = lowerRightCorner.x - totalWidth and
\* y = lowerRightCorner.y - totalHeight * (k + 1), k the number of active
\* notifications, both defined, and the notification is shown there.
C18_InsertPosition ==
  [][ (Acquiring(flight) /\ flight' # flight) =>
        LET x == config.lowerRightCorner.x - config.totalWidth
            y == config.lowerRightCorner.y
                   - config.totalHeight * (Len(activeNotifications) + 1)
        IN /\ nextInsertPos' = [xdef |-> TRUE, ydef |-> TRUE, x |-> x, y |-> y]
           /\ Len(shown') > Len(shown) =>
                /\ shown'[Len(shown')].x = x
                /\ shown'[Len(shown')].y = y
                /\ windows'[shown'[Len(shown')].win].x = x
                /\ windows'[shown'[Len(shown')].win].y = y ]_vars

\* Every notification notify has accepted is shown and closed
AllDone ==
  \A id \in 0 .. (latestID - 1) : IsShown(id) /\ closeRuns[id] >= 1

\* C19: without closeAll and setConfig, every accepted notification is at
\* last shown and closed, and notificationQueue is empty then.
C19_EventuallyShownAndClosed ==
  <>[](AllDone /\ notificationQueue = << >>)

C19_Witness ==
  /\ AllDone
  /\ notificationQueue = << >>
  /\ timers = {}
  /\ flight = << >>
  /\ Len(shown) > config.maxVisibleNotifications

\* C20: a cascade terminates and ends exactly on the slots.  A running move
\* can still reach its last step (curStep has not passed animationSteps,
\* and setPosition takes the position of the next tick); the last tick of a
\* move puts the window on the slot of its new index; and when the close
\* task completes no move is running or waiting and every window from
\* startPos up is on its slot, in parallel and in sequential mode.
C20_CascadeTerminates ==
  /\ [](\A k \in 1 .. Len(flight) : \A m \in flight[k].moves :
          m.den = config.animationSteps =>
            /\ m.curStep <= config.animationSteps
            /\ windows[m.win].destroyed \/ CanTick(State, m, strictArgs))
  /\ [][ \A k \in 1 .. Len(flight) :
           (flight[k].phase = "anim" /\ Len(flight') = Len(flight)
              /\ flight[k].totalHeight = config'.totalHeight) =>
             /\ \A m \in flight[k].moves :
                  (m.curStep = config.animationSteps
                     /\ ~(\E n \in flight'[k].moves :
                            n.win = m.win /\ n.i = m.i)) =>
                    windows'[m.win].y = SlotY(m.i)
             /\ flight'[k].phase = "then" =>
                  /\ flight'[k].moves = {}
                  /\ flight'[k].pend = << >>
                  /\ \A i \in flight[k].startPos
                              .. (Len(activeNotifications) - 1) :
                       windows'[activeNotifications[i + 1]].y = SlotY(i)
        ]_vars

====
